---------------------------- MODULE Spec2Model ----------------------------
(***************************************************************************)
(* Model of the sorting visualizer's step engines (sorting_algorithms.py). *)
(*                                                                         *)
(* Every engine is a Python generator.  A generator is modelled by its     *)
(* suspended frame (the record state_iter: resume point pc, locals, and    *)
(* for the recursive engines the stack of nested `yield from` frames) and  *)
(* by the operator RunToYield, which resumes the frame and executes the    *)
(* body up to the next `yield` (or to the end of the body).                *)
(*                                                                         *)
(* Python lists are mutable objects reached through references: `heap`     *)
(* maps addresses to list contents, `data` is the address of the caller's  *)
(* sequence, and list(data) allocates a new address.                       *)
(*                                                                         *)
(* An array element is the pair <<value, origin>>: the integer the code    *)
(* compares, and the index the element had in the input.  The code reads   *)
(* only the value (Val); the origin lets a property follow an element.     *)
(* Indices are Python's (0-based); GetItem/SetItem translate.              *)
(*                                                                         *)
(* Three variables record history for the properties: `input` is the       *)
(* values of the data as passed in or generated, `snaps` the snapshots     *)
(* pulled from state_iter so far, `pulls` the number of next() calls made  *)
(* on it.                                                                  *)
(*                                                                         *)
(* The playback driver (main.py, class SortApp) holds one generator in     *)
(* state_iter and pulls it from its frame loop.  Spec is the run of one    *)
(* engine under any consumer; DriverSpec is the driver with its keys, its  *)
(* clock and its frame loop.                                               *)
(***************************************************************************)
EXTENDS Integers, Sequences, FiniteSets, TLC

VARIABLES heap, data, state_iter, snaps, pulls, input,
          algorithm_fn, current_state, sort_complete, paused, delay_ms, elapsed

\* The fields of SortApp besides data and state_iter.
driver == <<algorithm_fn, current_state, sort_complete, paused, delay_ms, elapsed>>

vars == <<heap, data, state_iter, snaps, pulls, input, driver>>

\* Bounds of the model: longest input and largest element value.
MaxLen == 4
MaxVal == 3

\* The single-element edge case [7].
EdgeInput == <<7>>

\* The two-element out-of-order input [5, 1].
StepInput == <<5, 1>>

Engines == {"bubble_sort", "insertion_sort", "selection_sort", "quick_sort", "merge_sort"}

\* class HighlightType
HighlightType == {"default", "compare", "swap", "pivot", "sorted"}

-----------------------------------------------------------------------------
(* Python values *)

Val(e) == e[1]
Origin(e) == e[2]

Min(a, b) == IF a < b THEN a ELSE b
Max(a, b) == IF a > b THEN a ELSE b

\* len(a)
len(a) == Len(a)

\* a[i] is defined for -len(a) <= i < len(a); anything else raises IndexError.
InBounds(a, i) == -Len(a) <= i /\ i < Len(a)

NormIndex(a, i) == IF i < 0 THEN i + Len(a) ELSE i

\* a[i]
GetItem(a, i) == a[NormIndex(a, i) + 1]

\* a[i] = v
SetItem(a, i, v) == [a EXCEPT ![NormIndex(a, i) + 1] = v]

\* a slice bound, clamped as Python clamps it
SliceIndex(a, x) == IF x < 0 THEN Max(x + Len(a), 0) ELSE Min(x, Len(a))

\* a[lo:hi]: a new list of the elements at lo, ..., hi - 1 (after clamping)
Slice(a, lo, hi) ==
    [p \in 1..(SliceIndex(a, hi) - SliceIndex(a, lo)) |-> a[SliceIndex(a, lo) + p]]

\* range(lo, hi) as the set of its values
range(lo, hi) == {x \in lo..(hi - 1) : TRUE}

\* The least unused address.
Alloc(h) ==
    CHOOSE a \in 1..(Cardinality(DOMAIN h) + 1) :
        /\ a \notin DOMAIN h
        /\ \A b \in 1..(a - 1) : b \in DOMAIN h

\* A bug list() does not have: returning the argument itself.
ListAlias(h, ref) == [heap |-> h, ref |-> ref]

\* list(x): a new list object holding the elements of x.
ListCopy(h, ref) ==
    LET a == Alloc(h)
    IN  [heap |-> (a :> h[ref]) @@ h, ref |-> a]

\* A bug of set.add: forgetting what the set held.
SetAddReplace(S, x) == {x}

\* S.add(x)
SetAdd(S, x) == S \cup {x}

\* A bug of the update: range(i) instead of range(i + 1).
SetUpdateShort(S, lo, hi) == S \cup range(lo, hi - 1)

\* S.update(range(lo, hi))
SetUpdate(S, lo, hi) == S \cup range(lo, hi)

-----------------------------------------------------------------------------
(* The step model: SortState and _state *)

RECURSIVE SortedTuple(_)
\* tuple(sorted(set(xs)))
SortedTuple(S) ==
    IF S = {} THEN <<>>
    ELSE LET x == CHOOSE y \in S : \A z \in S : y <= z
         IN  <<x>> \o SortedTuple(S \ {x})

\* {idx: hl for idx, hl in highlights}: a later pair overrides an earlier one.
HighlightDict(pairs) ==
    [idx \in {pairs[p][1] : p \in DOMAIN pairs} |->
        LET last == CHOOSE p \in DOMAIN pairs :
                        /\ pairs[p][1] = idx
                        /\ \A q \in DOMAIN pairs : pairs[q][1] = idx => q <= p
        IN  pairs[last][2]]

\* An f-string: its template and the values substituted into it.
Desc(text, args) == [text |-> text, args |-> args]

\* SortState(array, highlights, sorted_indices, description); origin is the
\* elements' input positions, not a field of the class.
SortState(array, highlights, sorted_indices, description) ==
    [array |-> [p \in DOMAIN array |-> Val(array[p])],
     origin |-> [p \in DOMAIN array |-> Origin(array[p])],
     highlights |-> highlights,
     sorted_indices |-> sorted_indices,
     description |-> description]

\* def _state(array, highlights, sorted_indices, description)
_state(array, highlights, sorted_indices, description) ==
    SortState(array, HighlightDict(highlights), SortedTuple(sorted_indices), description)

\* A bug of the final yield: the running set and no description,
\* _state(arr, sorted_indices=sorted_indices).
CompleteStateRunning(array, sorted_indices, text) ==
    _state(array, <<>>, sorted_indices, Desc("", <<>>))

\* A bug of the final yield: no sorted_indices, _state(arr, description=...).
CompleteStateNoIndices(array, sorted_indices, text) ==
    _state(array, <<>>, {}, Desc(text, <<>>))

\* The final yield of every engine: _state(arr, sorted_indices=range(n), description="... complete")
CompleteState(array, sorted_indices, text) ==
    _state(array, <<>>, range(0, len(array)), Desc(text, <<>>))

-----------------------------------------------------------------------------
(* Generators *)

NoFrame == <<>>

\* A generator object that has not started: the body runs at the first next().
NewGenerator(fn, ref) ==
    [fn |-> fn, pc |-> "start", data |-> ref, arr |-> 0, sorted_indices |-> {},
     n |-> 0, i |-> 0, j |-> 0, key |-> <<0, 0>>, min_idx |-> 0, stack |-> NoFrame]

\* The result of executing one piece of a body: the heap, the frame, and the
\* yielded snapshot (<<s>>) or none (<<>>).
Yield(h, g, s) == [heap |-> h, gen |-> g, yield |-> <<s>>]
Cont(h, g) == [heap |-> h, gen |-> g, yield |-> <<>>]

\* An uncaught exception ends the generator.
Raise(h, g) == Cont(h, [g EXCEPT !.pc = "raised"])

\* Falling off the end of the body: StopIteration.
Return(h, g) == Cont(h, [g EXCEPT !.pc = "exhausted"])

Finished(g) == g.pc \in {"exhausted", "raised"}

\* The engine's working list.
Arr(h, g) == h[g.arr]

\* A bug of the exchange: two assignments in sequence, arr[x] = arr[y] and
\* then arr[y] = arr[x], which leave the value of arr[y] in both cells.
SwapSequential(a, x, y) == SetItem(SetItem(a, x, GetItem(a, y)), y, GetItem(a, y))

\* arr[x], arr[y] = arr[y], arr[x]
Swap(a, x, y) == SetItem(SetItem(a, x, GetItem(a, y)), y, GetItem(a, x))

-----------------------------------------------------------------------------
(* bubble_sort *)

\* A bug of the comparison: the reversed test.
BubbleInOrder(a, j) == Val(GetItem(a, j)) < Val(GetItem(a, j + 1))

\* if arr[j] > arr[j + 1]
BubbleOutOfOrder(a, j) == Val(GetItem(a, j)) > Val(GetItem(a, j + 1))

\* A bug of the swap snapshot: one index keeps the COMPARE highlight.
BubbleSwapStateMixed(arr, j, sorted_indices) ==
    _state(arr, <<<<j, "compare">>, <<j + 1, "swap">>>>, sorted_indices,
          Desc("Swapped indices {j} and {j + 1}", <<j, j + 1>>))

\* The snapshot yielded after an exchange.
BubbleSwapState(arr, j, sorted_indices) ==
    _state(arr, <<<<j, "swap">>, <<j + 1, "swap">>>>, sorted_indices,
          Desc("Swapped indices {j} and {j + 1}", <<j, j + 1>>))

\* A bug of the inner loop: every pass scans the whole array.
BubbleInnerEndFull(n, i) == n - 1

\* for j in range(0, n - i - 1): the end of the pass
BubbleInnerEnd(n, i) == n - i - 1

\* A bug of the tail position: off by one.
BubbleTailOffByOne(n, i) == n - i

\* The position settled by pass i: n - i - 1
BubbleTail(n, i) == n - i - 1

bubble_sort(h, g) ==
    LET arr == Arr(h, g)
        n == g.n
        i == g.i
        j == g.j
    IN
    CASE g.pc = "start" ->
            LET c == ListCopy(h, g.data)
            IN  Cont(c.heap, [g EXCEPT !.arr = c.ref, !.n = len(c.heap[c.ref]),
                                       !.sorted_indices = {}, !.i = 0, !.pc = "for_i"])
      [] g.pc = "for_i" ->
            IF i < n
            THEN Cont(h, [g EXCEPT !.j = 0, !.pc = "for_j"])
            ELSE Cont(h, [g EXCEPT !.pc = "complete"])
      [] g.pc = "for_j" ->
            IF j < BubbleInnerEnd(n, i)
            THEN Yield(h, [g EXCEPT !.pc = "compared"],
                       _state(arr, <<<<j, "compare">>, <<j + 1, "compare">>>>,
                             g.sorted_indices,
                             Desc("Comparing indices {j} and {j + 1}", <<j, j + 1>>)))
            ELSE Cont(h, [g EXCEPT !.pc = "pass_done"])
      [] g.pc = "compared" ->
            IF ~InBounds(arr, j) \/ ~InBounds(arr, j + 1)
            THEN Raise(h, g)
            ELSE IF BubbleOutOfOrder(arr, j)
            THEN LET h2 == [h EXCEPT ![g.arr] = Swap(arr, j, j + 1)]
                 IN  Yield(h2, [g EXCEPT !.pc = "next_j"],
                           BubbleSwapState(h2[g.arr], j, g.sorted_indices))
            ELSE Cont(h, [g EXCEPT !.pc = "next_j"])
      [] g.pc = "next_j" ->
            Cont(h, [g EXCEPT !.j = j + 1, !.pc = "for_j"])
      [] g.pc = "pass_done" ->
            LET s == SetAdd(g.sorted_indices, BubbleTail(n, i))
            IN  Yield(h, [g EXCEPT !.sorted_indices = s, !.pc = "next_i"],
                      _state(arr, <<<<BubbleTail(n, i), "sorted">>>>, s,
                            Desc("Position {n - i - 1} is sorted", <<BubbleTail(n, i)>>)))
      [] g.pc = "next_i" ->
            Cont(h, [g EXCEPT !.i = i + 1, !.pc = "for_i"])
      [] g.pc = "complete" ->
            Yield(h, [g EXCEPT !.pc = "end"],
                  CompleteState(arr, g.sorted_indices, "Bubble sort complete"))
      [] OTHER -> Return(h, g)

-----------------------------------------------------------------------------
(* insertion_sort *)

\* while j >= 0 and arr[j] > key
InsertionShifts(a, j, key) == j >= 0 /\ Val(GetItem(a, j)) > Val(key)

insertion_sort(h, g) ==
    LET arr == Arr(h, g)
        i == g.i
        j == g.j
        key == g.key
    IN
    CASE g.pc = "start" ->
            LET c == ListCopy(h, g.data)
            IN  Cont(c.heap, [g EXCEPT !.arr = c.ref, !.sorted_indices = {},
                                       !.i = 1, !.pc = "for_i"])
      [] g.pc = "for_i" ->
            IF i < len(arr)
            THEN Yield(h, [g EXCEPT !.key = GetItem(arr, i), !.j = i - 1, !.pc = "while"],
                       _state(arr, <<<<i, "pivot">>>>, g.sorted_indices,
                             Desc("Selecting key at index {i}", <<i>>)))
            ELSE Cont(h, [g EXCEPT !.pc = "complete"])
      [] g.pc = "while" ->
            IF j >= 0 /\ ~InBounds(arr, j)
            THEN Raise(h, g)
            ELSE IF InsertionShifts(arr, j, key)
            THEN Yield(h, [g EXCEPT !.pc = "shift"],
                       _state(arr, <<<<j, "compare">>, <<j + 1, "compare">>>>,
                             g.sorted_indices,
                             Desc("Comparing key with index {j}", <<j>>)))
            ELSE Cont(h, [g EXCEPT !.pc = "insert"])
      [] g.pc = "shift" ->
            IF ~InBounds(arr, j) \/ ~InBounds(arr, j + 1)
            THEN Raise(h, g)
            ELSE LET h2 == [h EXCEPT ![g.arr] = SetItem(arr, j + 1, GetItem(arr, j))]
                 IN  Yield(h2, [g EXCEPT !.pc = "next_j"],
                           _state(h2[g.arr], <<<<j, "swap">>, <<j + 1, "swap">>>>,
                                 g.sorted_indices,
                                 Desc("Shifting value at index {j} to index {j + 1}",
                                      <<j, j + 1>>)))
      [] g.pc = "next_j" ->
            Cont(h, [g EXCEPT !.j = j - 1, !.pc = "while"])
      [] g.pc = "insert" ->
            IF ~InBounds(arr, j + 1)
            THEN Raise(h, g)
            ELSE LET h2 == [h EXCEPT ![g.arr] = SetItem(arr, j + 1, key)]
                     s == SetUpdate(g.sorted_indices, 0, i + 1)
                 IN  Yield(h2, [g EXCEPT !.sorted_indices = s, !.pc = "next_i"],
                           _state(h2[g.arr], <<<<j + 1, "swap">>>>, s,
                                 Desc("Inserted key at index {j + 1}", <<j + 1>>)))
      [] g.pc = "next_i" ->
            Cont(h, [g EXCEPT !.i = i + 1, !.pc = "for_i"])
      [] g.pc = "complete" ->
            Yield(h, [g EXCEPT !.pc = "end"],
                  CompleteState(arr, g.sorted_indices, "Insertion sort complete"))
      [] OTHER -> Return(h, g)

-----------------------------------------------------------------------------
(* selection_sort *)

\* if arr[j] < arr[min_idx]
SelectionNewMinimum(a, j, min_idx) == Val(GetItem(a, j)) < Val(GetItem(a, min_idx))

selection_sort(h, g) ==
    LET arr == Arr(h, g)
        n == g.n
        i == g.i
        j == g.j
        min_idx == g.min_idx
    IN
    CASE g.pc = "start" ->
            LET c == ListCopy(h, g.data)
            IN  Cont(c.heap, [g EXCEPT !.arr = c.ref, !.sorted_indices = {},
                                       !.n = len(c.heap[c.ref]), !.i = 0, !.pc = "for_i"])
      [] g.pc = "for_i" ->
            IF i < n
            THEN Cont(h, [g EXCEPT !.min_idx = i, !.j = i + 1, !.pc = "for_j"])
            ELSE Cont(h, [g EXCEPT !.pc = "complete"])
      [] g.pc = "for_j" ->
            IF j < n
            THEN Yield(h, [g EXCEPT !.pc = "compared"],
                       _state(arr, <<<<min_idx, "pivot">>, <<j, "compare">>>>,
                             g.sorted_indices,
                             Desc("Finding minimum from index {i} onward", <<i>>)))
            ELSE Cont(h, [g EXCEPT !.pc = "pass_done"])
      [] g.pc = "compared" ->
            IF ~InBounds(arr, j) \/ ~InBounds(arr, min_idx)
            THEN Raise(h, g)
            ELSE IF SelectionNewMinimum(arr, j, min_idx)
            THEN Yield(h, [g EXCEPT !.min_idx = j, !.pc = "next_j"],
                       _state(arr, <<<<j, "pivot">>>>, g.sorted_indices,
                             Desc("New minimum at index {min_idx}", <<j>>)))
            ELSE Cont(h, [g EXCEPT !.pc = "next_j"])
      [] g.pc = "next_j" ->
            Cont(h, [g EXCEPT !.j = j + 1, !.pc = "for_j"])
      [] g.pc = "pass_done" ->
            IF ~InBounds(arr, i) \/ ~InBounds(arr, min_idx)
            THEN Raise(h, g)
            ELSE LET h2 == [h EXCEPT ![g.arr] = Swap(arr, i, min_idx)]
                     s == SetAdd(g.sorted_indices, i)
                 IN  Yield(h2, [g EXCEPT !.sorted_indices = s, !.pc = "next_i"],
                           _state(h2[g.arr], <<<<i, "sorted">>, <<min_idx, "swap">>>>, s,
                                 Desc("Swapped minimum into position {i}", <<i>>)))
      [] g.pc = "next_i" ->
            Cont(h, [g EXCEPT !.i = i + 1, !.pc = "for_i"])
      [] g.pc = "complete" ->
            Yield(h, [g EXCEPT !.pc = "end"],
                  CompleteState(arr, g.sorted_indices, "Selection sort complete"))
      [] OTHER -> Return(h, g)


-----------------------------------------------------------------------------
(* Nested generators: `yield from f(...)` runs f's body as a frame on the stack *)

Frame(fn) ==
    [fn |-> fn, pc |-> "entry", low |-> 0, high |-> 0, pivot |-> <<0, 0>>,
     pivot_idx |-> 0, start |-> 0, end |-> 0, mid |-> 0, left |-> <<>>,
     right |-> <<>>, i |-> 0, j |-> 0, k |-> 0]

Top(g) == g.stack[Len(g.stack)]

\* The running frame with its locals replaced by f.
SetTop(g, f) == [g EXCEPT !.stack[Len(g.stack)] = f]

\* yield from callee: the caller resumes at pc `after` once the callee returns.
Call(g, after, callee) ==
    IF g.stack = NoFrame
    THEN [g EXCEPT !.pc = after, !.stack = <<callee>>]
    ELSE [g EXCEPT !.stack = Append(SetTop(g, [Top(g) EXCEPT !.pc = after]).stack, callee)]

\* return from the running nested generator
Pop(g) == [g EXCEPT !.stack = SubSeq(g.stack, 1, Len(g.stack) - 1)]

-----------------------------------------------------------------------------
(* quick_sort *)

\* A bug of the partition test: values equal to the pivot go to the high side.
QuickLowSideStrict(a, j, pivot) == Val(GetItem(a, j)) < Val(pivot)

\* if arr[j] <= pivot
QuickLowSide(a, j, pivot) == Val(GetItem(a, j)) <= Val(pivot)

\* A bug of the base case: a single index is returned from without a snapshot.
QuickSingleIndexNever(low, high) == FALSE

\* if low == high
QuickSingleIndex(low, high) == low = high

\* A bug of the right recursion: the pivot's index is kept in the subrange.
QuickRightLowKeepsPivot(pivot_idx) == pivot_idx

\* The lower end of the right subrange: pivot_idx + 1
QuickRightLow(pivot_idx) == pivot_idx + 1

\* A bug of the recursion: the right subrange first.
QuickCallsRightFirst(low, high, pivot_idx) ==
    << <<QuickRightLow(pivot_idx), high>>, <<low, pivot_idx - 1>> >>

\* The two recursive calls in the order they are made:
\* (low, pivot_idx - 1), then (pivot_idx + 1, high).
QuickCalls(low, high, pivot_idx) ==
    << <<low, pivot_idx - 1>>, <<QuickRightLow(pivot_idx), high>> >>

\* _quick_sort(arr, low, high, sorted_indices), running as the top frame
_quick_sort(h, g) ==
    LET f == Top(g)
        arr == Arr(h, g)
        low == f.low
        high == f.high
        i == f.i
        j == f.j
    IN
    CASE f.pc = "entry" ->
            IF low >= high
            THEN IF QuickSingleIndex(low, high)
                 THEN LET s == SetAdd(g.sorted_indices, low)
                      IN  Yield(h, [SetTop(g, [f EXCEPT !.pc = "return"])
                                        EXCEPT !.sorted_indices = s],
                                _state(arr, <<<<low, "sorted">>>>, s,
                                      Desc("Index {low} is sorted", <<low>>)))
                 ELSE Cont(h, Pop(g))
            ELSE IF ~InBounds(arr, high)
            THEN Raise(h, g)
            ELSE Yield(h, SetTop(g, [f EXCEPT !.pivot = GetItem(arr, high),
                                              !.i = low - 1, !.j = low, !.pc = "for_j"]),
                       _state(arr, <<<<high, "pivot">>>>, g.sorted_indices,
                             Desc("Pivot chosen at index {high}", <<high>>)))
      [] f.pc = "for_j" ->
            IF j < high
            THEN Yield(h, SetTop(g, [f EXCEPT !.pc = "compared"]),
                       _state(arr, <<<<j, "compare">>, <<high, "pivot">>>>,
                             g.sorted_indices,
                             Desc("Comparing index {j} with pivot", <<j>>)))
            ELSE Cont(h, SetTop(g, [f EXCEPT !.pc = "settle"]))
      [] f.pc = "compared" ->
            IF ~InBounds(arr, j)
            THEN Raise(h, g)
            ELSE IF QuickLowSide(arr, j, f.pivot)
            THEN IF ~InBounds(arr, i + 1)
                 THEN Raise(h, g)
                 ELSE LET h2 == [h EXCEPT ![g.arr] = Swap(arr, i + 1, j)]
                      IN  Yield(h2, SetTop(g, [f EXCEPT !.i = i + 1, !.pc = "next_j"]),
                                _state(h2[g.arr], <<<<i + 1, "swap">>, <<j, "swap">>>>,
                                      g.sorted_indices,
                                      Desc("Swapped indices {i} and {j}", <<i + 1, j>>)))
            ELSE Cont(h, SetTop(g, [f EXCEPT !.pc = "next_j"]))
      [] f.pc = "next_j" ->
            Cont(h, SetTop(g, [f EXCEPT !.j = j + 1, !.pc = "for_j"]))
      [] f.pc = "settle" ->
            IF ~InBounds(arr, i + 1) \/ ~InBounds(arr, high)
            THEN Raise(h, g)
            ELSE LET h2 == [h EXCEPT ![g.arr] = Swap(arr, i + 1, high)]
                     s == SetAdd(g.sorted_indices, i + 1)
                 IN  Yield(h2, [SetTop(g, [f EXCEPT !.pivot_idx = i + 1, !.pc = "left"])
                                    EXCEPT !.sorted_indices = s],
                           _state(h2[g.arr], <<<<i + 1, "sorted">>>>, s,
                                 Desc("Pivot settled at index {pivot_idx}", <<i + 1>>)))
      [] f.pc = "left" ->
            LET c == QuickCalls(low, high, f.pivot_idx)[1]
            IN  Cont(h, Call(g, "right",
                             [Frame("_quick_sort") EXCEPT !.low = c[1], !.high = c[2]]))
      [] f.pc = "right" ->
            LET c == QuickCalls(low, high, f.pivot_idx)[2]
            IN  Cont(h, Call(g, "return",
                             [Frame("_quick_sort") EXCEPT !.low = c[1], !.high = c[2]]))
      [] OTHER -> Cont(h, Pop(g))

quick_sort(h, g) ==
    CASE g.pc = "start" ->
            LET c == ListCopy(h, g.data)
                g2 == [g EXCEPT !.arr = c.ref, !.sorted_indices = {}]
            IN  Cont(c.heap, Call(g2, "complete",
                                  [Frame("_quick_sort") EXCEPT
                                      !.low = 0, !.high = len(c.heap[c.ref]) - 1]))
      [] g.pc = "complete" ->
            Yield(h, [g EXCEPT !.pc = "end"],
                  CompleteState(Arr(h, g), g.sorted_indices, "Quick sort complete"))
      [] OTHER -> Return(h, g)

-----------------------------------------------------------------------------
(* merge_sort *)

\* A bug of the merge: taking the right element on a tie.
MergeTakeLeftStrict(l, r) == Val(l) < Val(r)

\* if left[i] <= right[j]
MergeTakeLeft(l, r) == Val(l) <= Val(r)

\* A bug of the merge: the COMPARE snapshot leaves out the write cursor.
MergeCursorsReadOnly(k, l, r) == <<<<l, "compare">>, <<r, "compare">>>>

\* The highlights of the snapshot before a placement decision: the write
\* cursor k and the read cursors start + i and mid + 1 + j.
MergeCursors(k, l, r) == <<<<k, "compare">>, <<l, "compare">>, <<r, "compare">>>>

\* _merge(arr, start, mid, end, sorted_indices), running as the top frame
_merge(h, g) ==
    LET f == Top(g)
        arr == Arr(h, g)
        start == f.start
        mid == f.mid
        end == f.end
        left == f.left
        right == f.right
        i == f.i
        j == f.j
        k == f.k
        placed(h2, text) ==
            _state(h2[g.arr], <<<<k, "swap">>>>, g.sorted_indices, Desc(text, <<k>>))
    IN
    CASE f.pc = "entry" ->
            Cont(h, SetTop(g, [f EXCEPT !.left = Slice(arr, start, mid + 1),
                                        !.right = Slice(arr, mid + 1, end + 1),
                                        !.i = 0, !.j = 0, !.k = start, !.pc = "while_both"]))
      [] f.pc = "while_both" ->
            IF i < len(left) /\ j < len(right)
            THEN Yield(h, SetTop(g, [f EXCEPT !.pc = "place"]),
                       _state(arr, MergeCursors(k, start + i, mid + 1 + j),
                             g.sorted_indices,
                             Desc("Merging indices {start} to {end}", <<start, end>>)))
            ELSE Cont(h, SetTop(g, [f EXCEPT !.pc = "while_left"]))
      [] f.pc = "place" ->
            IF ~InBounds(arr, k)
            THEN Raise(h, g)
            ELSE IF MergeTakeLeft(GetItem(left, i), GetItem(right, j))
            THEN LET h2 == [h EXCEPT ![g.arr] = SetItem(arr, k, GetItem(left, i))]
                 IN  Yield(h2, SetTop(g, [f EXCEPT !.i = i + 1, !.pc = "placed"]),
                           placed(h2, "Placed value at index {k}"))
            ELSE LET h2 == [h EXCEPT ![g.arr] = SetItem(arr, k, GetItem(right, j))]
                 IN  Yield(h2, SetTop(g, [f EXCEPT !.j = j + 1, !.pc = "placed"]),
                           placed(h2, "Placed value at index {k}"))
      [] f.pc = "placed" ->
            Cont(h, SetTop(g, [f EXCEPT !.k = k + 1, !.pc = "while_both"]))
      [] f.pc = "while_left" ->
            IF i < len(left)
            THEN IF ~InBounds(arr, k)
                 THEN Raise(h, g)
                 ELSE LET h2 == [h EXCEPT ![g.arr] = SetItem(arr, k, GetItem(left, i))]
                      IN  Yield(h2, SetTop(g, [f EXCEPT !.pc = "copied_left"]),
                                placed(h2, "Copying remaining left element to index {k}"))
            ELSE Cont(h, SetTop(g, [f EXCEPT !.pc = "while_right"]))
      [] f.pc = "copied_left" ->
            Cont(h, SetTop(g, [f EXCEPT !.i = i + 1, !.k = k + 1, !.pc = "while_left"]))
      [] f.pc = "while_right" ->
            IF j < len(right)
            THEN IF ~InBounds(arr, k)
                 THEN Raise(h, g)
                 ELSE LET h2 == [h EXCEPT ![g.arr] = SetItem(arr, k, GetItem(right, j))]
                      IN  Yield(h2, SetTop(g, [f EXCEPT !.pc = "copied_right"]),
                                placed(h2, "Copying remaining right element to index {k}"))
            ELSE Cont(h, SetTop(g, [f EXCEPT !.pc = "segment"]))
      [] f.pc = "copied_right" ->
            Cont(h, SetTop(g, [f EXCEPT !.j = j + 1, !.k = k + 1, !.pc = "while_right"]))
      [] f.pc = "segment" ->
            LET s == SetUpdate(g.sorted_indices, start, end + 1)
            IN  Yield(h, [SetTop(g, [f EXCEPT !.pc = "return"]) EXCEPT !.sorted_indices = s],
                      _state(arr, [x \in 1..Max(end + 1 - start, 0) |-> <<start + x - 1, "sorted">>],
                            s, Desc("Segment {start}:{end} sorted", <<start, end>>)))
      [] OTHER -> Cont(h, Pop(g))

\* mid = (start + end) // 2
MergeMid(start, end) == (start + end) \div 2

\* _merge_sort(arr, start, end, sorted_indices), running as the top frame
_merge_sort(h, g) ==
    LET f == Top(g)
        arr == Arr(h, g)
        start == f.start
        end == f.end
    IN
    CASE f.pc = "entry" ->
            IF start >= end
            THEN LET s == SetAdd(g.sorted_indices, start)
                 IN  Yield(h, [SetTop(g, [f EXCEPT !.pc = "return"])
                                   EXCEPT !.sorted_indices = s],
                           _state(arr, <<<<start, "sorted">>>>, s,
                                 Desc("Index {start} is trivially sorted", <<start>>)))
            ELSE Cont(h, Call(SetTop(g, [f EXCEPT !.mid = MergeMid(start, end)]), "right",
                              [Frame("_merge_sort") EXCEPT
                                  !.start = start, !.end = MergeMid(start, end)]))
      [] f.pc = "right" ->
            Cont(h, Call(g, "merge",
                         [Frame("_merge_sort") EXCEPT !.start = f.mid + 1, !.end = end]))
      [] f.pc = "merge" ->
            Cont(h, Call(g, "return",
                         [Frame("_merge") EXCEPT !.start = start, !.mid = f.mid, !.end = end]))
      [] OTHER -> Cont(h, Pop(g))

\* A bug of merge_sort: no guard for the empty list.
MergeAlways(a) == TRUE

\* if arr:
MergeNonEmpty(a) == len(a) > 0

merge_sort(h, g) ==
    CASE g.pc = "start" ->
            LET c == ListCopy(h, g.data)
                g2 == [g EXCEPT !.arr = c.ref, !.sorted_indices = {}]
            IN  IF MergeNonEmpty(c.heap[c.ref])
                THEN Cont(c.heap, Call(g2, "complete",
                                       [Frame("_merge_sort") EXCEPT
                                           !.start = 0, !.end = len(c.heap[c.ref]) - 1]))
                ELSE Cont(c.heap, [g2 EXCEPT !.pc = "complete"])
      [] g.pc = "complete" ->
            Yield(h, [g EXCEPT !.pc = "end"],
                  CompleteState(Arr(h, g), g.sorted_indices, "Merge sort complete"))
      [] OTHER -> Return(h, g)

-----------------------------------------------------------------------------
(* SnapshotSequence.next() *)

\* One piece of the running body: the top nested frame if there is one,
\* otherwise the engine's own frame.
Step(h, g) ==
    IF g.stack # NoFrame
    THEN CASE Top(g).fn = "_quick_sort" -> _quick_sort(h, g)
           [] Top(g).fn = "_merge_sort" -> _merge_sort(h, g)
           [] OTHER -> _merge(h, g)
    ELSE CASE g.fn = "bubble_sort" -> bubble_sort(h, g)
           [] g.fn = "insertion_sort" -> insertion_sort(h, g)
           [] g.fn = "selection_sort" -> selection_sort(h, g)
           [] g.fn = "quick_sort" -> quick_sort(h, g)
           [] OTHER -> merge_sort(h, g)

RECURSIVE RunToYield(_, _)
\* next(generator): resume the body and run it to its next yield or to its end.
RunToYield(h, g) ==
    CHOOSE res \in {IF r.yield # <<>> \/ Finished(r.gen)
                     THEN r
                     ELSE RunToYield(r.heap, r.gen) : r \in {Step(h, g)}} : TRUE

-----------------------------------------------------------------------------
(* The run of one engine on one input, pulled to exhaustion *)

\* settings.py: animation timing in milliseconds.
INITIAL_DELAY_MS == 40
MIN_DELAY_MS == 5
MAX_DELAY_MS == 200
DELAY_STEP_MS == 5

\* A bug of _start_algorithm: the displayed state is not reset.
StartStateKept(h, ref) == current_state

\* SortState(array=tuple(self.data)): no highlights, no sorted indices, no
\* description.
StartState(h, ref) == SortState(h[ref], <<>>, <<>>, Desc("", <<>>))

RECURSIVE Tuples(_, _)
\* The sequences of length n over S.
Tuples(S, n) ==
    IF n = 0 THEN {<<>>}
    ELSE {Append(t, x) : t \in Tuples(S, n - 1), x \in S}

Inputs == UNION {Tuples(1..MaxVal, n) : n \in 0..MaxLen} \cup {EdgeInput, StepInput}

\* The list object of the caller: each integer with its position.
Tagged(xs) == [p \in DOMAIN xs |-> <<xs[p], p - 1>>]

\* createRun(algorithmId, inputArray): the generator object, not yet started.
Init ==
    /\ input \in Inputs
    /\ data = 1
    /\ heap = (1 :> Tagged(input))
    /\ \E fn \in Engines : state_iter = NewGenerator(fn, data)
    /\ snaps = <<>>
    /\ pulls = 0
    /\ algorithm_fn = state_iter.fn
    /\ current_state = SortState(heap[data], <<>>, <<>>, Desc("", <<>>))
    /\ sort_complete = FALSE
    /\ paused = FALSE
    /\ delay_ms = INITIAL_DELAY_MS
    /\ elapsed = 0

\* next(state_iter) for the engine fn.
Pull(fn) ==
    /\ state_iter.fn = fn
    /\ ~Finished(state_iter)
    /\ \E r \in {RunToYield(heap, state_iter)} :
          /\ heap' = r.heap
          /\ state_iter' = r.gen
          /\ snaps' = snaps \o r.yield
    /\ pulls' = pulls + 1
    /\ UNCHANGED <<data, input, driver>>

NextBubble == Pull("bubble_sort")
NextInsertion == Pull("insertion_sort")
NextSelection == Pull("selection_sort")
NextQuick == Pull("quick_sort")
NextMerge == Pull("merge_sort")

Next == NextBubble \/ NextInsertion \/ NextSelection \/ NextQuick \/ NextMerge

Spec == Init /\ [][Next]_vars


\* A consumer that keeps pulling: next() is called again as long as the
\* sequence has not ended.
FairSpec == Spec /\ WF_vars(Next)

-----------------------------------------------------------------------------
(* The playback driver: class SortApp *)

\* settings.py: the range of the bar heights.
SCREEN_HEIGHT == 540
ARRAY_MIN_VALUE == 10
ARRAY_MAX_VALUE == SCREEN_HEIGHT - 100

\* The length of the generated arrays (settings.ARRAY_SIZE is 100).
ArraySize == 2

\* self.clock.tick(60): the frame rate, and the milliseconds of one frame.
FPS == 60
FrameMs == 1000 \div FPS

\* _build_algorithm_map(): the algorithm keys and their engines.
algorithms ==
    [K_1 |-> "bubble_sort", K_2 |-> "insertion_sort", K_3 |-> "selection_sort",
     K_4 |-> "quick_sort", K_5 |-> "merge_sort"]

\* _generate_data(): of the lists of ArraySize heights that randint can
\* produce, a descending one, an ascending one and one of equal heights.
GeneratedData ==
    {[p \in 1..ArraySize |-> ARRAY_MAX_VALUE - p + 1],
     [p \in 1..ArraySize |-> ARRAY_MIN_VALUE + p - 1],
     [p \in 1..ArraySize |-> ARRAY_MIN_VALUE]}

\* A bug of _start_algorithm: the completion flag of the old run is kept.
StartCompleteKept == sort_complete

\* self.sort_complete = False
StartComplete == FALSE

\* _start_algorithm(), with self.data = ref on heap h and self.algorithm_fn = fn.
\* The generator is created, not started; _last_step_tick = get_ticks().
_start_algorithm(h, ref, fn) ==
    /\ state_iter' = NewGenerator(fn, ref)
    /\ current_state' = StartState(h, ref)
    /\ sort_complete' = StartComplete
    /\ elapsed' = 0
    /\ snaps' = <<>>
    /\ pulls' = 0

\* SortApp.__init__(): bubble sort on generated data, not paused.
DriverInit ==
    /\ input \in GeneratedData
    /\ data = 1
    /\ heap = (1 :> Tagged(input))
    /\ algorithm_fn = algorithms["K_1"]
    /\ delay_ms = INITIAL_DELAY_MS
    /\ paused = FALSE
    /\ state_iter = NewGenerator(algorithm_fn, data)
    /\ current_state = SortState(heap[data], <<>>, <<>>, Desc("", <<>>))
    /\ sort_complete = FALSE
    /\ elapsed = 0
    /\ snaps = <<>>
    /\ pulls = 0

\* _restart_with_shuffle(): self.data becomes a new list; the old list and
\* the old generator with its working list are dropped.
_restart_with_shuffle ==
    \E xs \in GeneratedData :
        LET ref == Alloc(<<>>)
            h == (ref :> Tagged(xs))
        IN  /\ heap' = h
            /\ data' = ref
            /\ input' = xs
            /\ _start_algorithm(h, ref, algorithm_fn)
            /\ UNCHANGED <<algorithm_fn, paused, delay_ms>>

\* _switch_algorithm(key): the old generator with its working list is dropped.
_switch_algorithm(key) ==
    LET h == (data :> heap[data])
    IN  /\ algorithm_fn' = algorithms[key]
        /\ heap' = h
        /\ _start_algorithm(h, data, algorithms[key])
        /\ UNCHANGED <<data, input, paused, delay_ms>>

\* A bug of the clamp: the lower bound is forgotten.
ClampDelayAbove(v) == Min(MAX_DELAY_MS, v)

\* int(max(settings.MIN_DELAY_MS, min(settings.MAX_DELAY_MS, v)))
ClampDelay(v) == Max(MIN_DELAY_MS, Min(MAX_DELAY_MS, v))

\* _adjust_delay(delta)
_adjust_delay(delta) ==
    /\ delay_ms' = ClampDelay(delay_ms + delta)
    /\ UNCHANGED <<heap, data, state_iter, snaps, pulls, input, algorithm_fn,
                   current_state, sort_complete, paused, elapsed>>

\* _handle_key: K_r
KeyR == _restart_with_shuffle

\* _handle_key: key in self.algorithms
KeyAlgorithm == \E key \in DOMAIN algorithms : _switch_algorithm(key)

\* _handle_key: K_MINUS, K_KP_MINUS
KeyMinus == _adjust_delay(DELAY_STEP_MS)

\* _handle_key: K_EQUALS, K_PLUS, K_KP_PLUS
KeyPlus == _adjust_delay(-DELAY_STEP_MS)

\* _handle_key: K_SPACE
KeySpace ==
    /\ paused' = ~paused
    /\ UNCHANGED <<heap, data, state_iter, snaps, pulls, input, algorithm_fn,
                   current_state, sort_complete, delay_ms, elapsed>>

\* A bug of the gate: a finished run is pulled again.
HaltedPausedOnly(p, c) == p

\* if self.paused or self.sort_complete: return
Halted(p, c) == p \/ c

\* A bug of the pacing: the delay is ignored.
TooEarlyNever(e, d) == FALSE

\* if now - self._last_step_tick < self.delay_ms: return
TooEarly(e, d) == e < d

\* A bug of the display: at a delay below the initial one the pulled
\* snapshot is dropped and the old state stays displayed.
DisplayedStateThrottled(next_state) ==
    IF delay_ms < INITIAL_DELAY_MS THEN current_state ELSE next_state

\* self.current_state = next_state
DisplayedState(next_state) == next_state

\* _update_state(): at most one next(self.state_iter).  StopIteration sets
\* sort_complete and nothing else; a snapshot becomes the displayed state and
\* restarts the delay.  Any other exception leaves _update_state before an
\* assignment.
_update_state ==
    IF Halted(paused, sort_complete) \/ TooEarly(elapsed, delay_ms)
    THEN UNCHANGED vars
    ELSE \E r \in {RunToYield(heap, state_iter)} :
            /\ heap' = r.heap
            /\ state_iter' = r.gen
            /\ snaps' = snaps \o r.yield
            /\ pulls' = pulls + 1
            /\ IF r.yield # <<>>
               THEN /\ current_state' = DisplayedState(r.yield[1])
                    /\ elapsed' = 0
                    /\ UNCHANGED sort_complete
               ELSE /\ sort_complete' = (sort_complete \/ r.gen.pc = "exhausted")
                    /\ UNCHANGED <<current_state, elapsed>>
            /\ UNCHANGED <<data, input, algorithm_fn, paused, delay_ms>>

\* The clock: pygame.time.get_ticks() is read only in the difference
\* now - self._last_step_tick, which is `elapsed`; it grows by the frames of
\* the loop and is followed up to MAX_DELAY_MS, above which every step is due.
ClockTick ==
    /\ elapsed < MAX_DELAY_MS
    /\ elapsed' = Min(elapsed + FrameMs, MAX_DELAY_MS)
    /\ UNCHANGED <<heap, data, state_iter, snaps, pulls, input, algorithm_fn,
                   current_state, sort_complete, paused, delay_ms>>

\* SortApp.run(): the events, the update and the clock of the frame loop, in
\* any interleaving.  Quitting (K_ESCAPE, QUIT) ends the loop and is left out.
DriverNext ==
    \/ _update_state
    \/ KeyR
    \/ KeyAlgorithm
    \/ KeyMinus
    \/ KeyPlus
    \/ KeySpace
    \/ ClockTick

DriverSpec == DriverInit /\ [][DriverNext]_vars

-----------------------------------------------------------------------------
(* Reading a run *)

\* The run has been pulled to exhaustion.
Done == state_iter.pc = "exhausted"

Last == snaps[Len(snaps)]

\* array[i] of a snapshot, i a Python index
At(xs, i) == xs[i + 1]

\* finalizedIndices of a snapshot, as a set
Finalized(s) == {s.sorted_indices[p] : p \in DOMAIN s.sorted_indices}

\* The full index range of a snapshot.
FullRange(s) == 0..(Len(s.array) - 1)

FullCoverage(s) == Finalized(s) = FullRange(s)

\* The highlight kinds a snapshot carries.
Kinds(s) == {s.highlights[x] : x \in DOMAIN s.highlights}

NonDecreasing(xs) == \A p \in 1..(Len(xs) - 1) : xs[p] <= xs[p + 1]

Count(xs, v) == Cardinality({p \in DOMAIN xs : xs[p] = v})

\* xs and ys hold the same multiset of values.
Permutation(xs, ys) ==
    /\ Len(xs) = Len(ys)
    /\ \A p \in DOMAIN xs : Count(xs, xs[p]) = Count(ys, xs[p])

\* The ascending arrangement of xs, by counting: position p holds the least
\* value v such that at least p elements of xs are <= v.
Ascending(xs) ==
    [p \in DOMAIN xs |->
        CHOOSE v \in {xs[q] : q \in DOMAIN xs} :
            /\ Cardinality({q \in DOMAIN xs : xs[q] <= v}) >= p
            /\ Cardinality({q \in DOMAIN xs : xs[q] < v}) < p]

CompletionText ==
    [fn \in Engines |->
        CASE fn = "bubble_sort" -> "Bubble sort complete"
          [] fn = "insertion_sort" -> "Insertion sort complete"
          [] fn = "selection_sort" -> "Selection sort complete"
          [] fn = "quick_sort" -> "Quick sort complete"
          [] OTHER -> "Merge sort complete"]

\* s is the completion snapshot of the running engine.
IsCompletion(s) ==
    /\ s.description = [text |-> CompletionText[state_iter.fn], args |-> <<>>]
    /\ s.highlights = <<>>

-----------------------------------------------------------------------------
(* Claims *)

\* C1: when a run of any engine is exhausted, the array of its last snapshot
\* is non-decreasing and a permutation of the input; it is the ascending
\* arrangement of the input, hence the same array for all five engines.
C1_FinalSorted ==
    Done =>
        /\ snaps # <<>>
        /\ NonDecreasing(Last.array)
        /\ Permutation(Last.array, input)
        /\ Last.array = Ascending(input)

\* C1 witness: a run on an unsorted input with duplicates, pulled to the end.
C1_Witness ==
    /\ Done
    /\ input = <<3, 1, 2, 1>>
    /\ state_iter.fn = "quick_sort"
    /\ Last.array = <<1, 1, 2, 3>>

\* C2: the last snapshot of an exhausted run is the completion snapshot
\* (finalizedIndices = the full range, description = the engine's completion
\* text), and a snapshot carrying the completion text is never followed by
\* another snapshot.
C2_CompletionLast ==
    /\ Done =>
          /\ snaps # <<>>
          /\ IsCompletion(Last)
          /\ FullCoverage(Last)
    /\ \A p \in DOMAIN snaps :
          snaps[p].description.text = CompletionText[state_iter.fn] =>
              /\ p = Len(snaps)
              /\ state_iter.pc \in {"end", "exhausted"}

\* C2 witness: an exhausted run with snapshots before the completion snapshot.
C2_Witness ==
    /\ Done
    /\ Len(snaps) > 3
    /\ Len(input) = 3
    /\ Last.description.text = "Merge sort complete"
    /\ Finalized(Last) = {0, 1, 2}

\* C3: between consecutive snapshots of a run the finalized set only grows.
C3_FinalizedGrows ==
    \A p \in 1..(Len(snaps) - 1) : Finalized(snaps[p]) \subseteq Finalized(snaps[p + 1])

\* C3 witness: a recursive run in which the set grew inside the recursion and
\* at the step to the completion snapshot nothing was lost.
C3_Witness ==
    /\ Done
    /\ state_iter.fn \in {"quick_sort", "merge_sort"}
    /\ Len(input) = 4
    /\ \E p \in 1..(Len(snaps) - 2) :
          /\ Finalized(snaps[p]) # Finalized(snaps[p + 1])
          /\ Finalized(snaps[p]) # {}


\* C4: once an index is in the finalizedIndices of a snapshot, the value at
\* that index is the same in that snapshot and in every later snapshot.
C4_FinalizedImmutable ==
    \A p \in DOMAIN snaps : \A q \in p..Len(snaps) :
        \A i \in Finalized(snaps[p]) \cap FullRange(snaps[p]) :
            At(snaps[q].array, i) = At(snaps[p].array, i)

\* C5 as stated: no snapshot other than the last of the run has
\* finalizedIndices equal to the full index range.
C5_FullOnlyAtEnd ==
    \A p \in 1..(Len(snaps) - 1) : ~FullCoverage(snaps[p])

\* C5 amended: the last snapshot of an exhausted run has full coverage, and
\* every snapshot that follows a snapshot with full coverage has it too (a
\* snapshot before the last may already have full coverage).
C5_FullCoveragePersists ==
    /\ Done => snaps # <<>> /\ FullCoverage(Last)
    /\ \A p \in DOMAIN snaps : \A q \in p..Len(snaps) :
          FullCoverage(snaps[p]) => FullCoverage(snaps[q])

\* C5 witness: an exhausted run on at least two elements in which a snapshot
\* before the last one already has full coverage.
C5_Witness ==
    /\ Done
    /\ Len(input) >= 2
    /\ \E p \in 1..(Len(snaps) - 1) : FullCoverage(snaps[p])
    /\ FullCoverage(Last)

\* C6: the caller's sequence holds the values it held when the run was
\* created, in the same order, after any number of pulls; the list a run
\* works on is a new object, and a pull changes no other list object (so
\* runs created from the same sequence cannot affect each other).
C6_InputUnchanged ==
    /\ [](/\ heap[data] = Tagged(input)
          /\ state_iter.data = data
          /\ state_iter.pc # "start" => state_iter.arr \in DOMAIN heap \ {data})
    /\ [][/\ state_iter.pc = "start" => state_iter'.arr \notin DOMAIN heap
          /\ \A a \in DOMAIN heap :
                a # state_iter'.arr => (a \in DOMAIN heap' /\ heap'[a] = heap[a])]_vars

\* C6 witness: an exhausted run whose working list was reordered while the
\* caller's sequence was not.
C6_Witness ==
    /\ Done
    /\ input = <<3, 1, 2, 1>>
    /\ heap[state_iter.arr] # heap[data]
    /\ heap[data] = <<<<3, 0>>, <<1, 1>>, <<2, 2>>, <<1, 3>>>>

\* C7: every exhausted run yielded at least one snapshot; on [] a run yields
\* exactly one snapshot, the completion snapshot with empty array and empty
\* finalizedIndices; on [7] the run ends with the completion snapshot, array
\* [7] and finalizedIndices {0}.
C7_EdgeCases ==
    /\ Done => Len(snaps) >= 1
    /\ input = <<>> =>
          /\ Len(snaps) <= 1
          /\ \A p \in DOMAIN snaps :
                /\ IsCompletion(snaps[p])
                /\ snaps[p].array = <<>>
                /\ snaps[p].sorted_indices = <<>>
    /\ (input = EdgeInput /\ Done) =>
          /\ IsCompletion(Last)
          /\ Last.array = EdgeInput
          /\ Finalized(Last) = {0}

\* C7 witness: the exhausted merge sort run on the empty input.
C7_Witness ==
    /\ Done
    /\ input = <<>>
    /\ state_iter.fn = "merge_sort"
    /\ Len(snaps) = 1

\* The subrange a nested frame works on.
FrameLow(f) == IF f.fn = "_quick_sort" THEN f.low ELSE f.start
FrameHigh(f) == IF f.fn = "_quick_sort" THEN f.high ELSE f.end

\* Every recursive call on the stack works on a strictly smaller subrange,
\* inside the subrange of its caller.
StrictlySmallerSubranges ==
    \A p \in 1..(Len(state_iter.stack) - 1) :
        LET caller == state_iter.stack[p]
            callee == state_iter.stack[p + 1]
        IN  /\ FrameLow(caller) <= FrameLow(callee)
            /\ FrameHigh(callee) <= FrameHigh(caller)
            /\ callee.fn = caller.fn =>
                  FrameHigh(callee) - FrameLow(callee) < FrameHigh(caller) - FrameLow(caller)

ArrayBefore(p) == IF p = 1 THEN input ELSE snaps[p - 1].array

\* C9: no snapshot carries both a COMPARE and a SWAP highlight, and a
\* snapshot with a COMPARE highlight shows the array of the preceding
\* snapshot (the input, for the first snapshot).
C9_CompareBeforeSwap ==
    \A p \in DOMAIN snaps :
        /\ ~({"compare", "swap"} \subseteq Kinds(snaps[p]))
        /\ "compare" \in Kinds(snaps[p]) => snaps[p].array = ArrayBefore(p)

\* C9 witness: a COMPARE snapshot directly followed by a SWAP snapshot whose
\* array differs from it.
C9_Witness ==
    \E p \in 1..(Len(snaps) - 1) :
        /\ "compare" \in Kinds(snaps[p])
        /\ "swap" \in Kinds(snaps[p + 1])
        /\ snaps[p + 1].array # snaps[p].array
        /\ state_iter.fn = "bubble_sort"

\* C10: in the last snapshot of an exhausted merge sort run every element
\* of the input appears once, and elements of equal value appear in the
\* order of their input positions.
C10_MergeStable ==
    (Done /\ state_iter.fn = "merge_sort") =>
        /\ {Last.origin[p] : p \in DOMAIN Last.origin} = 0..(Len(input) - 1)
        /\ \A p \in DOMAIN Last.array : Last.array[p] = input[Last.origin[p] + 1]
        /\ \A p, q \in DOMAIN Last.array :
              (p < q /\ Last.array[p] = Last.array[q]) => Last.origin[p] < Last.origin[q]

\* C10 witness: merge sort on [3, 1, 2, 1] ends with the 1 of index 1 before
\* the 1 of index 3.
C10_Witness ==
    /\ Done
    /\ state_iter.fn = "merge_sort"
    /\ input = <<3, 1, 2, 1>>
    /\ Last.array = <<1, 1, 2, 3>>
    /\ Last.origin = <<1, 3, 2, 0>>

\* The valid indices of the input: 0 .. n - 1.
InputRange == 0..(Len(input) - 1)

\* C11: in every snapshot the array has the length of the input, and every
\* finalized index and every highlighted index lies in 0 .. n - 1.
C11_IndicesValid ==
    \A p \in DOMAIN snaps :
        /\ Len(snaps[p].array) = Len(input)
        /\ Finalized(snaps[p]) \subseteq InputRange
        /\ DOMAIN snaps[p].highlights \subseteq InputRange

\* C11 witness: a merge snapshot of a longest input whose three cursors are
\* distinct and reach the last index.
C11_Witness ==
    /\ state_iter.fn = "merge_sort"
    /\ Len(input) = MaxLen
    /\ snaps # <<>>
    /\ Cardinality(DOMAIN Last.highlights) = 3
    /\ Kinds(Last) = {"compare"}
    /\ (Len(input) - 1) \in DOMAIN Last.highlights

\* The number of snapshots up to position p that carry a highlight of kind.
Rank(p, kind) == Cardinality({q \in 1..p : kind \in Kinds(snaps[q])})

\* The array xs with the 0-based positions x and y exchanged.
Exchanged(xs, x, y) ==
    [p \in DOMAIN xs |-> IF p = x + 1 THEN xs[y + 1]
                         ELSE IF p = y + 1 THEN xs[x + 1]
                         ELSE xs[p]]

\* The snapshot s highlights exactly the pair (j, j + 1), both as kind.
OnPair(s, j, kind) == s.highlights = (j :> kind) @@ ((j + 1) :> kind)

\* C15: in a bubble sort run every COMPARE snapshot is on an adjacent pair
\* (j, j + 1); the next snapshot is a SWAP snapshot exactly when
\* array[j] > array[j + 1], and then it is on the same pair and shows the
\* COMPARE snapshot's array with the two positions exchanged; the SORTED
\* snapshot of pass i highlights exactly n - i - 1, comes after the
\* n - 1, n - 2, ... comparisons of the passes 0 .. i, and its finalized
\* set is that of the previous snapshot plus n - i - 1; an exhausted run has
\* n (n - 1) / 2 COMPARE snapshots; and the run on [5, 1] has a COMPARE and
\* a SWAP snapshot and ends on [1, 5] with both indices finalized.
C15_BubbleSteps ==
    state_iter.fn = "bubble_sort" =>
        LET n == Len(input)
        IN  /\ \A p \in DOMAIN snaps :
                  "compare" \in Kinds(snaps[p]) =>
                      \E j \in 0..(n - 2) :
                          /\ OnPair(snaps[p], j, "compare")
                          /\ p < Len(snaps) =>
                                /\ "swap" \in Kinds(snaps[p + 1])
                                      <=> At(snaps[p].array, j) > At(snaps[p].array, j + 1)
                                /\ "swap" \in Kinds(snaps[p + 1]) =>
                                      /\ OnPair(snaps[p + 1], j, "swap")
                                      /\ snaps[p + 1].array
                                            = Exchanged(snaps[p].array, j, j + 1)
            /\ \A p \in DOMAIN snaps :
                  "swap" \in Kinds(snaps[p]) =>
                      p > 1 /\ "compare" \in Kinds(snaps[p - 1])
            /\ \A p \in DOMAIN snaps :
                  "sorted" \in Kinds(snaps[p]) =>
                      LET i == Rank(p, "sorted") - 1
                      IN  /\ snaps[p].highlights = ((n - i - 1) :> "sorted")
                          /\ Rank(p, "compare") * 2 = (i + 1) * (2 * n - i - 2)
                          /\ p > 1 =>
                                /\ (n - i - 1) \notin Finalized(snaps[p - 1])
                                /\ Finalized(snaps[p])
                                      = Finalized(snaps[p - 1]) \cup {n - i - 1}
                          /\ p = 1 => Finalized(snaps[p]) = {n - i - 1}
            /\ Done =>
                  /\ Rank(Len(snaps), "compare") * 2 = n * (n - 1)
                  /\ Rank(Len(snaps), "sorted") = n
            /\ (Done /\ input = StepInput) =>
                  /\ Rank(Len(snaps), "compare") >= 1
                  /\ Rank(Len(snaps), "swap") >= 1
                  /\ Last.array = <<1, 5>>
                  /\ Finalized(Last) = {0, 1}

\* C15 witness: an exhausted bubble sort run on a longest input with a
\* comparison that swaps and one that does not.
C15_Witness ==
    /\ state_iter.fn = "bubble_sort"
    /\ Done
    /\ Len(input) = MaxLen
    /\ Rank(Len(snaps), "swap") \in 1..(Rank(Len(snaps), "compare") - 1)

\* The snapshot emitted by insertion sort after a key was placed.
IsInserted(s) == s.description.text = "Inserted key at index {j + 1}"

\* The number of keys placed up to position p of an insertion sort run.
Placed(p) == Cardinality({q \in 1..p : IsInserted(snaps[q])})

\* The first k values of xs.
Prefix(xs, k) == SubSeq(xs, 1, k)

\* C16: in an insertion sort run the keys 1 .. n - 1 are taken in order; the
\* snapshots of key i start with a PIVOT snapshot on exactly i; every COMPARE
\* snapshot on (j, j + 1) is directly followed by a SWAP snapshot on the same
\* pair that shows the value of j copied to j + 1, and no other snapshot has
\* two SWAP highlights; the snapshot after key i is placed has the finalized
\* set {0 .. i}, highlights only the insertion point, which holds the key,
\* and shows array[0 .. i] non-decreasing and a permutation of the first
\* i + 1 values of the input.
C16_InsertionSteps ==
    state_iter.fn = "insertion_sort" =>
        LET n == Len(input)
        IN  /\ \A p \in DOMAIN snaps :
                  "pivot" \in Kinds(snaps[p]) =>
                      LET i == Rank(p, "pivot")
                      IN  /\ i \in 1..(n - 1)
                          /\ snaps[p].highlights = (i :> "pivot")
                          /\ Placed(p) = i - 1
                          /\ p = 1 \/ IsInserted(snaps[p - 1])
            /\ \A p \in DOMAIN snaps :
                  "compare" \in Kinds(snaps[p]) =>
                      \E j \in 0..(n - 2) :
                          /\ OnPair(snaps[p], j, "compare")
                          /\ p > 1
                          /\ "compare" \notin Kinds(snaps[p - 1])
                          /\ ~IsInserted(snaps[p - 1])
                          /\ p < Len(snaps) =>
                                /\ OnPair(snaps[p + 1], j, "swap")
                                /\ snaps[p + 1].array
                                      = [snaps[p].array EXCEPT
                                            ![j + 2] = At(snaps[p].array, j)]
            /\ \A p \in DOMAIN snaps :
                  ("swap" \in Kinds(snaps[p]) /\ ~IsInserted(snaps[p])) =>
                      p > 1 /\ "compare" \in Kinds(snaps[p - 1])
            /\ \A p \in DOMAIN snaps :
                  IsInserted(snaps[p]) =>
                      LET i == Placed(p)
                      IN  /\ i \in 1..(n - 1)
                          /\ Rank(p, "pivot") = i
                          /\ Finalized(snaps[p]) = 0..i
                          /\ \E x \in 0..i :
                                /\ snaps[p].highlights = (x :> "swap")
                                /\ At(snaps[p].array, x) = At(input, i)
                          /\ NonDecreasing(Prefix(snaps[p].array, i + 1))
                          /\ Permutation(Prefix(snaps[p].array, i + 1),
                                         Prefix(input, i + 1))
            /\ Done =>
                  /\ Placed(Len(snaps)) = Max(n - 1, 0)
                  /\ Rank(Len(snaps), "pivot") = Max(n - 1, 0)

\* C16 witness: the last key of a longest input was placed below its own
\* index after at least two shifts.
C16_Witness ==
    /\ state_iter.fn = "insertion_sort"
    /\ Len(input) = MaxLen
    /\ snaps # <<>>
    /\ IsInserted(Last)
    /\ Placed(Len(snaps)) = MaxLen - 1
    /\ \E x \in 0..(MaxLen - 3) : x \in DOMAIN Last.highlights

\* C17: when selection sort has just emitted the end-of-pass snapshot of
\* pass i, position i is finalized, the snapshot marks position i as SORTED
\* and, where the minimum came from another index, that index as SWAP.
C17_SelectionPassEnd ==
    (state_iter.fn = "selection_sort" /\ state_iter.pc = "next_i") =>
        /\ state_iter.i \in Finalized(Last)
        /\ state_iter.i \in DOMAIN Last.highlights
        /\ Last.highlights[state_iter.i] = "sorted"
        /\ state_iter.min_idx # state_iter.i =>
              /\ state_iter.min_idx \in DOMAIN Last.highlights
              /\ Last.highlights[state_iter.min_idx] = "swap"

\* The running _quick_sort call has just emitted "Pivot settled".
PivotSettled ==
    /\ state_iter.fn = "quick_sort"
    /\ state_iter.stack # NoFrame
    /\ Top(state_iter).pc = "left"

\* The position of the latest "Pivot chosen" snapshot: the first snapshot of
\* the call that is partitioning or has just partitioned.
Announced ==
    CHOOSE q \in DOMAIN snaps :
        /\ "pivot" \in Kinds(snaps[q]) /\ "compare" \notin Kinds(snaps[q])
        /\ \A r \in (q + 1)..Len(snaps) :
              ~("pivot" \in Kinds(snaps[r]) /\ "compare" \notin Kinds(snaps[r]))

\* The number of snapshots whose description has the template text.
Described(text) == Cardinality({q \in DOMAIN snaps : snaps[q].description.text = text})

\* C18: when a quick sort call on [low, high] has just emitted "Pivot settled
\* at index p", then low < high, low <= p <= high, the snapshot highlights
\* exactly p as SORTED, array[p] is the value that was at index high in the
\* call's "Pivot chosen" snapshot, every value of array[low .. p - 1] is
\* <= array[p], every value of array[p + 1 .. high] is > array[p], and every
\* position outside [low, high] holds the value it had in the "Pivot chosen"
\* snapshot; an exhausted run has one "Pivot settled" snapshot for every
\* "Pivot chosen" snapshot.
C18_Partition ==
    /\ PivotSettled =>
          LET f == Top(state_iter)
              p == f.pivot_idx
              a == Last.array
              a0 == snaps[Announced].array
          IN  /\ f.low < f.high
              /\ f.low <= p /\ p <= f.high
              /\ Last.highlights = (p :> "sorted")
              /\ Last.description = Desc("Pivot settled at index {pivot_idx}", <<p>>)
              /\ snaps[Announced].highlights = (f.high :> "pivot")
              /\ At(a, p) = At(a0, f.high)
              /\ \A x \in f.low..(p - 1) : At(a, x) <= At(a, p)
              /\ \A x \in (p + 1)..f.high : At(a, x) > At(a, p)
              /\ \A x \in InputRange \ (f.low..f.high) : At(a, x) = At(a0, x)
    /\ (Done /\ state_iter.fn = "quick_sort") =>
          Described("Pivot settled at index {pivot_idx}")
              = Described("Pivot chosen at index {high}")

\* C18 witness: a pivot settled strictly inside its subrange, with a value
\* equal to the pivot on the low side, in a call on a proper part of the array.
C18_Witness ==
    /\ PivotSettled
    /\ LET f == Top(state_iter)
           p == f.pivot_idx
       IN  /\ f.low < p /\ p < f.high
           /\ f.high - f.low < Len(input) - 1
           /\ \E x \in f.low..(p - 1) : At(Last.array, x) = At(Last.array, p)

\* The finalized set shown before position p of the run.
FinalizedBefore(p) == IF p = 1 THEN {} ELSE Finalized(snaps[p - 1])

\* C19: in a quick sort run every snapshot with a SORTED highlight
\* highlights exactly one index, which was not finalized before and is the
\* only index added ("Pivot settled at" that index, or "Index is sorted" for
\* a one-index subrange); every other snapshot shows the finalized set of
\* the snapshot before it; no call on an empty subrange is suspended at a
\* snapshot; and an exhausted run has exactly n snapshots with a SORTED
\* highlight, all before the completion snapshot.
C19_FinalizedOnce ==
    state_iter.fn = "quick_sort" =>
        /\ \A p \in DOMAIN snaps :
              IF "sorted" \in Kinds(snaps[p])
              THEN \E x \in InputRange :
                      /\ snaps[p].highlights = (x :> "sorted")
                      /\ x \notin FinalizedBefore(p)
                      /\ Finalized(snaps[p]) = FinalizedBefore(p) \cup {x}
                      /\ snaps[p].description
                            \in {Desc("Pivot settled at index {pivot_idx}", <<x>>),
                                 Desc("Index {low} is sorted", <<x>>)}
              ELSE Finalized(snaps[p]) = FinalizedBefore(p)
        /\ \A d \in DOMAIN state_iter.stack :
              /\ state_iter.stack[d].low <= state_iter.stack[d].high
              /\ state_iter.stack[d].low = state_iter.stack[d].high
                    => /\ d = Len(state_iter.stack)
                       /\ Last.description
                             = Desc("Index {low} is sorted", <<state_iter.stack[d].low>>)
        /\ Done =>
              /\ Rank(Len(snaps), "sorted") = Len(input)
              /\ "sorted" \notin Kinds(Last)

\* C19 witness: an exhausted quick sort run on a longest input in which a
\* pivot settled at index 0 (its left subrange is empty) and a one-index
\* subrange was finalized.
C19_Witness ==
    /\ state_iter.fn = "quick_sort"
    /\ Done
    /\ Len(input) = MaxLen
    /\ \E q \in DOMAIN snaps :
          snaps[q].description = Desc("Pivot settled at index {pivot_idx}", <<0>>)
    /\ Described("Index {low} is sorted") >= 1

\* The nested _quick_sort call at depth d runs the left subrange of its
\* caller (the caller resumes at its second recursive call).
InLeftCall(d) == state_iter.stack[d - 1].pc = "right"

\* The nested _quick_sort call at depth d runs the right subrange of its
\* caller (the caller returns when it is done).
InRightCall(d) ==
    /\ state_iter.stack[d - 1].pc = "return"
    /\ state_iter.stack[d - 1].low < state_iter.stack[d - 1].high

\* C20: while a quick sort call on [low, high] whose pivot settled at p is
\* suspended in a recursive call, that call is either the one on
\* [low, p - 1], and then the latest snapshot highlights only indices below
\* p and nothing of [p + 1, high] has been finalized, or the one on
\* [p + 1, high], and then all of [low, p] is finalized (the left subrange
\* is finished) and the latest snapshot highlights only indices above p.
C20_LeftBeforeRight ==
    state_iter.fn = "quick_sort" =>
        \A d \in 2..Len(state_iter.stack) :
            LET caller == state_iter.stack[d - 1]
                callee == state_iter.stack[d]
                p == caller.pivot_idx
            IN  /\ InLeftCall(d) \/ InRightCall(d)
                /\ InLeftCall(d) =>
                      /\ callee.low = caller.low /\ callee.high = p - 1
                      /\ DOMAIN Last.highlights \subseteq caller.low..(p - 1)
                      /\ Finalized(Last) \cap ((p + 1)..caller.high) = {}
                /\ InRightCall(d) =>
                      /\ callee.low = p + 1 /\ callee.high = caller.high
                      /\ DOMAIN Last.highlights \subseteq (p + 1)..caller.high
                      /\ caller.low..p \subseteq Finalized(Last)

\* C20 witness: a call is suspended in its right subrange after a left
\* subrange of more than one index was sorted.
C20_Witness ==
    /\ state_iter.fn = "quick_sort"
    /\ \E d \in 2..Len(state_iter.stack) :
          /\ InRightCall(d)
          /\ state_iter.stack[d - 1].pivot_idx - state_iter.stack[d - 1].low >= 2
          /\ Described("Swapped indices {i} and {j}") >= 2

RECURSIVE RunAll(_, _)
\* The snapshots a generator yields from the frame g on, pulled to its end.
RunAll(h, g) ==
    IF Finished(g) THEN <<>>
    ELSE CHOOSE run \in {r.yield \o RunAll(r.heap, r.gen) :
                            r \in {RunToYield(h, g)}} : TRUE

\* The whole run of the engine fn on a list holding xs.
FreshRun(fn, xs) == RunAll((1 :> Tagged(xs)), NewGenerator(fn, 1))

\* The step starts a run: a generator that has not started, no snapshot pulled.
StartsRun ==
    /\ state_iter' = NewGenerator(algorithm_fn', data')
    /\ snaps' = <<>>
    /\ pulls' = 0

\* The displayed state with the fields of the driver's data and nothing else.
ShowsData(s, xs) ==
    /\ s.array = xs
    /\ s.highlights = <<>>
    /\ s.sorted_indices = <<>>
    /\ s.description = Desc("", <<>>)

\* C12: in every state of the driver the data list holds the values as they
\* were generated, the generator is one of the selected engine on that list,
\* the snapshots pulled since the run started are the first snapshots of
\* that engine's run on the data (all of them once the run is exhausted),
\* and the displayed state is the latest of them, or the plain data with
\* sort_complete false when none was pulled; and every step that changes the
\* algorithm or the data starts a run with no snapshot pulled, the plain new
\* data displayed and sort_complete false, a change of algorithm leaving the
\* data list and its contents as they were.
C12_RestartLifecycle ==
    /\ [](/\ heap[data] = Tagged(input)
          /\ state_iter.fn = algorithm_fn
          /\ state_iter.data = data
          /\ LET run == FreshRun(algorithm_fn, input)
             IN  /\ Len(snaps) <= Len(run)
                 /\ snaps = SubSeq(run, 1, Len(snaps))
                 /\ Done => snaps = run
          /\ snaps # <<>> => current_state = Last
          /\ snaps = <<>> => ShowsData(current_state, input) /\ ~sort_complete)
    /\ [][(algorithm_fn' # algorithm_fn \/ input' # input \/ data' # data) =>
              /\ StartsRun
              /\ ShowsData(current_state', input')
              /\ ~sort_complete'
              /\ algorithm_fn' # algorithm_fn =>
                    /\ data' = data
                    /\ input' = input
                    /\ heap'[data'] = heap[data]]_vars

\* C12 witness: after a switch away from the initial algorithm, merge sort
\* has rewritten its working list while the driver's descending data is
\* still as generated, and two of its snapshots were pulled.
C12_Witness ==
    /\ algorithm_fn = "merge_sort"
    /\ Len(snaps) >= 2
    /\ At(input, 0) > At(input, Len(input) - 1)
    /\ state_iter.arr \in DOMAIN heap
    /\ heap[state_iter.arr] # heap[data]
    /\ current_state.array # input

\* C13: sort_complete is true exactly when the generator is exhausted, and
\* then the displayed state is the last snapshot pulled, the completion
\* snapshot of the run: no highlights, a non-decreasing permutation of the
\* data, every index finalized; one next() call was made beyond the
\* snapshots, the one that found the end.  The step that sets sort_complete
\* leaves the displayed state and the pulled snapshots as they were, and
\* while sort_complete is true there is no next() call and the generator,
\* the snapshots and the displayed state change only by a step that starts
\* a new run.
C13_Exhaustion ==
    /\ [](/\ sort_complete <=> Done
          /\ sort_complete =>
                /\ snaps # <<>>
                /\ pulls = Len(snaps) + 1
                /\ current_state = Last
                /\ IsCompletion(current_state)
                /\ NonDecreasing(current_state.array)
                /\ Permutation(current_state.array, input)
                /\ FullCoverage(current_state))
    /\ [][/\ (~sort_complete /\ sort_complete') =>
                /\ current_state' = current_state
                /\ snaps' = snaps
                /\ pulls' = pulls + 1
          /\ (sort_complete /\ <<state_iter, snaps, pulls, current_state, sort_complete>>'
                                  # <<state_iter, snaps, pulls, current_state, sort_complete>>) =>
                /\ StartsRun
                /\ ~sort_complete']_vars

\* C13 witness: a quick sort run on descending data was pulled to exhaustion
\* and the driver, not paused, has since let more than the delay pass.
C13_Witness ==
    /\ sort_complete
    /\ algorithm_fn = "quick_sort"
    /\ At(input, 0) > At(input, Len(input) - 1)
    /\ ~paused
    /\ elapsed > delay_ms

\* C14: the generator, the lists and the pulled snapshots change, and
\* next() is called, only in a step that starts a run or in a step that
\* calls next() once: it resumes the generator up to its next yield or its
\* end and adds at most one snapshot.  Such a step happens only when the
\* driver is not paused, sort_complete is false and at least delay_ms
\* milliseconds have passed since the last snapshot was pulled or the run
\* was started.
C14_PullPacing ==
    [][<<state_iter, heap, snaps, pulls>>' # <<state_iter, heap, snaps, pulls>> =>
          \/ StartsRun
          \/ /\ ~paused
             /\ ~sort_complete
             /\ elapsed >= delay_ms
             /\ pulls' = pulls + 1
             /\ \E r \in {RunToYield(heap, state_iter)} :
                   /\ state_iter' = r.gen
                   /\ heap' = r.heap
                   /\ snaps' = snaps \o r.yield
                   /\ Len(r.yield) <= 1]_vars

\* C14 witness: a step is due in the middle of a run (the delay has passed,
\* the run is not complete) while the driver is paused.
C14_Witness ==
    /\ paused
    /\ ~sort_complete
    /\ elapsed >= delay_ms
    /\ Len(snaps) >= 2
    /\ delay_ms > INITIAL_DELAY_MS

\* The snapshot s ends the processing of the range [lo, hi] of a merge sort
\* run: "Index lo is trivially sorted" for a single index, "Segment lo:hi
\* sorted" for a longer range.
EndsRange(s, lo, hi) ==
    IF lo = hi
    THEN s.description = Desc("Index {start} is trivially sorted", <<lo>>)
    ELSE s.description = Desc("Segment {start}:{end} sorted", <<lo, hi>>)

\* The values xs holds at the Python indices lo .. hi.
Segment(xs, lo, hi) == [x \in 1..(hi - lo + 1) |-> xs[lo + x]]

\* The positions, after q and before p, of the snapshots that mark a written
\* cell.
Writes(q, p) == {r \in (q + 1)..(p - 1) : "swap" \in Kinds(snaps[r])}

\* The cell written at position r, the m-th write after q, of a merge of
\* [start, end]: start + m - 1.
WriteCursor(q, r, start) == start + Cardinality({w \in Writes(q, r) : TRUE})

\* The number of the writes after q and before r whose value came from the
\* cells lo .. hi of the array shown at q: the read cursor of that half.
ReadCursor(q, r, start, lo, hi) ==
    Cardinality({w \in Writes(q, r) :
        snaps[w].origin[WriteCursor(q, w, start) + 1]
            \in {snaps[q].origin[x + 1] : x \in lo..hi}})

\* The merge of [start, end] that ends at position p began after position q.
MergeBlock(q, p, start, end) ==
    LET mid == (start + end) \div 2
        i(r) == ReadCursor(q, r, start, start, mid)
        j(r) == ReadCursor(q, r, start, mid + 1, end)
        both(r) == i(r) <= mid - start /\ j(r) <= end - mid - 1
    IN  \* the right half was processed last, and the left half before it
        /\ EndsRange(snaps[q], mid + 1, end)
        /\ \E l \in 1..(q - 1) :
              /\ EndsRange(snaps[l], start, mid)
              /\ \A r \in (l + 1)..q :
                    DOMAIN snaps[r].highlights \subseteq (mid + 1)..end
              /\ \A r \in 1..l : ~EndsRange(snaps[r], mid + 1, end)
        \* the snapshots of the merge are COMPARE and SWAP snapshots only
        /\ \A r \in (q + 1)..(p - 1) :
              \/ Kinds(snaps[r]) = {"compare"}
              \/ Kinds(snaps[r]) = {"swap"}
        \* one SWAP snapshot per cell, on start, start + 1, ..., end in order
        /\ Cardinality(Writes(q, p)) = end - start + 1
        /\ \A r \in Writes(q, p) :
              LET k == WriteCursor(q, r, start)
              IN  /\ snaps[r].highlights = (k :> "swap")
                  /\ \A x \in FullRange(snaps[r]) \ {k} :
                        At(snaps[r].array, x) = At(snaps[r - 1].array, x)
                  /\ i(r) + j(r) = k - start
                  /\ IF both(r)
                     THEN /\ snaps[r].description
                                = Desc("Placed value at index {k}", <<k>>)
                          /\ r - 1 > q
                          /\ snaps[r - 1].description
                                = Desc("Merging indices {start} to {end}", <<start, end>>)
                          /\ snaps[r - 1].highlights
                                = [x \in {k, start + i(r), mid + 1 + j(r)} |-> "compare"]
                          /\ snaps[r - 1].array = snaps[IF r - 1 = q + 1 THEN q ELSE r - 2].array
                     ELSE /\ snaps[r].description.text
                                = (IF i(r) <= mid - start
                                   THEN "Copying remaining left element to index {k}"
                                   ELSE "Copying remaining right element to index {k}")
                          /\ "compare" \notin Kinds(snaps[r - 1])
        /\ \A r \in (q + 1)..(p - 1) :
              "compare" \in Kinds(snaps[r]) => (r + 1) \in Writes(q, p)
        \* the snapshot that ends the merge
        /\ snaps[p].highlights = [x \in start..end |-> "sorted"]
        /\ (start..end) \subseteq Finalized(snaps[p])
        /\ Finalized(snaps[p]) = Finalized(snaps[p - 1]) \cup (start..end)
        /\ snaps[p].array = snaps[p - 1].array
        /\ NonDecreasing(Segment(snaps[p].array, start, end))
        /\ Permutation(Segment(snaps[p].array, start, end),
                       Segment(snaps[q].array, start, end))

\* C21: in a merge sort run every "Segment start:end sorted" snapshot ends a
\* merge of a range start < end whose left half [start, mid] and right half
\* [mid + 1, end], mid the lower middle, were processed before it in that
\* order; the snapshots of the merge are one SWAP snapshot per cell, on
\* start, start + 1, ..., end in that order, each changing that cell only;
\* each write made while both halves still hold unread values is a "Placed
\* value" snapshot directly preceded by a COMPARE snapshot that highlights
\* the write cursor and the two read cursors and shows the unchanged array,
\* each later write is a "Copying remaining" snapshot of the half that is
\* left; the closing snapshot highlights every index of [start, end] as
\* SORTED, has the whole range finalized, and shows array[start .. end]
\* non-decreasing and a permutation of the values the range held when the
\* merge began. Every COMPARE or SWAP snapshot of an exhausted run belongs to
\* such a merge, and a run on n >= 1 values has n - 1 merges.
C21_MergeStep ==
    state_iter.fn = "merge_sort" =>
        /\ \A p \in DOMAIN snaps :
              snaps[p].description.text = "Segment {start}:{end} sorted" =>
                  LET start == snaps[p].description.args[1]
                      end == snaps[p].description.args[2]
                  IN  /\ 0 <= start /\ start < end /\ end < Len(input)
                      /\ \E q \in 1..(p - 1) :
                            /\ "sorted" \in Kinds(snaps[q])
                            /\ MergeBlock(q, p, start, end)
        /\ Done =>
              /\ \A r \in DOMAIN snaps :
                    Kinds(snaps[r]) \cap {"compare", "swap"} # {} =>
                        \E p \in (r + 1)..Len(snaps) :
                            /\ snaps[p].description.text = "Segment {start}:{end} sorted"
                            /\ \A x \in r..(p - 1) : "sorted" \notin Kinds(snaps[x])
              /\ Len(input) >= 1 =>
                    Described("Segment {start}:{end} sorted") = Len(input) - 1
              /\ Len(input) >= 2 =>
                    EndsRange(snaps[Len(snaps) - 1], 0, Len(input) - 1)

\* C21 witness: an exhausted merge sort run on a longest input whose last
\* merge compares with three distinct cursors, drains the left half and
\* changes the array.
C21_Witness ==
    /\ state_iter.fn = "merge_sort"
    /\ Done
    /\ Len(input) = MaxLen
    /\ Len(snaps) >= 2
    /\ EndsRange(snaps[Len(snaps) - 1], 0, MaxLen - 1)
    /\ \E q \in DOMAIN snaps :
          /\ EndsRange(snaps[q], ((MaxLen - 1) \div 2) + 1, MaxLen - 1)
          /\ snaps[q].array # Last.array
          /\ \E r \in (q + 1)..Len(snaps) :
                /\ Kinds(snaps[r]) = {"compare"}
                /\ Cardinality(DOMAIN snaps[r].highlights) = 3
          /\ \E r \in (q + 1)..Len(snaps) :
                snaps[r].description.text = "Copying remaining left element to index {k}"

\* C22: in every reachable state of the driver MIN_DELAY_MS <= delay_ms <=
\* MAX_DELAY_MS and delay_ms is a multiple of DELAY_STEP_MS; the slow-down
\* key adds DELAY_STEP_MS, or leaves delay_ms at MAX_DELAY_MS when the sum
\* would exceed it; the speed-up key subtracts DELAY_STEP_MS, or leaves
\* delay_ms at MIN_DELAY_MS when the difference would fall below it; and no
\* other step changes delay_ms.
C22_DelayBounded ==
    /\ [](/\ MIN_DELAY_MS <= delay_ms
          /\ delay_ms <= MAX_DELAY_MS
          /\ delay_ms % DELAY_STEP_MS = 0)
    /\ [][/\ KeyMinus =>
                delay_ms' = (IF delay_ms + DELAY_STEP_MS > MAX_DELAY_MS
                             THEN MAX_DELAY_MS
                             ELSE delay_ms + DELAY_STEP_MS)
          /\ KeyPlus =>
                delay_ms' = (IF delay_ms - DELAY_STEP_MS < MIN_DELAY_MS
                             THEN MIN_DELAY_MS
                             ELSE delay_ms - DELAY_STEP_MS)
          /\ delay_ms' # delay_ms => KeyMinus \/ KeyPlus]_vars

\* C22 witness: the delay was raised from its initial value to the upper
\* bound while a merge sort run was played to its end.
C22_Witness ==
    /\ delay_ms = MAX_DELAY_MS
    /\ algorithm_fn = "merge_sort"
    /\ sort_complete
    /\ ~paused

\* The engines that change the array by exchanges only.
ExchangeEngines == {"bubble_sort", "selection_sort", "quick_sort"}

\* C23: in a run of bubble sort, selection sort or quick sort every
\* snapshot's array is a permutation of the input, each element being an
\* input element at some position; the array of a snapshot is that of the
\* snapshot before it (the input, for the first), or that array with two
\* positions exchanged; every finalized index of a snapshot holds the value
\* the ascending arrangement of the input has at that index, which is the
\* value the last snapshot of the exhausted run shows there; and every later
\* snapshot shows the same value at that index.
C23_ExchangesOnly ==
    state_iter.fn \in ExchangeEngines =>
        \A p \in DOMAIN snaps :
            /\ Permutation(snaps[p].array, input)
            /\ {snaps[p].origin[x] : x \in DOMAIN snaps[p].origin} = InputRange
            /\ \A x \in DOMAIN snaps[p].array :
                  snaps[p].array[x] = input[snaps[p].origin[x] + 1]
            /\ \E x, y \in InputRange \cup {0} :
                  /\ snaps[p].array = Exchanged(ArrayBefore(p), x, y)
                  /\ snaps[p].origin
                        = Exchanged(IF p = 1 THEN [z \in DOMAIN input |-> z - 1]
                                    ELSE snaps[p - 1].origin, x, y)
            /\ \A x \in Finalized(snaps[p]) :
                  /\ At(snaps[p].array, x) = Ascending(input)[x + 1]
                  /\ Done => At(snaps[p].array, x) = At(Last.array, x)
                  /\ \A q \in p..Len(snaps) :
                        At(snaps[q].array, x) = At(snaps[p].array, x)

\* C23 witness: a quick sort run on a longest input in which an index was
\* finalized while the array was not yet sorted, and the array was changed by
\* an exchange afterwards.
C23_Witness ==
    /\ state_iter.fn = "quick_sort"
    /\ Len(input) = MaxLen
    /\ \E p \in DOMAIN snaps :
          /\ Finalized(snaps[p]) # {}
          /\ ~NonDecreasing(snaps[p].array)
          /\ \E q \in (p + 1)..Len(snaps) : snaps[q].array # snaps[q - 1].array

\* The state displayed after k snapshots of the run of fn on xs were pulled:
\* the plain data for k = 0, the k-th snapshot of the run otherwise.  It is
\* a function of the data, the algorithm and k alone.
DisplayedAfter(fn, xs, k) ==
    IF k = 0
    THEN SortState(Tagged(xs), <<>>, <<>>, Desc("", <<>>))
    ELSE FreshRun(fn, xs)[k]

\* Everything the driver holds except the paused flag and the delay.
Content ==
    <<heap, data, state_iter, snaps, pulls, input, algorithm_fn, current_state,
      sort_complete>>

\* C24: a step that changes the paused flag changes nothing else, and a step
\* that changes delay_ms changes nothing else: the data, the algorithm, the
\* generator, the pulled snapshots, the displayed state, sort_complete and
\* the time since the last step stay as they are.  The displayed state is, in
\* every state, the one determined by the data, the algorithm and the number
\* of snapshots pulled since the run started, whatever the paused flag and
\* the delay are or were; and a step that changes the displayed state or the
\* pulled snapshots without changing the data or the algorithm either
\* restarts the run on the same data or displays the next snapshot of the
\* run, appending exactly that snapshot.  So two executions on the same data
\* and algorithm display the same snapshots in the same order, however
\* pause and delay actions are interleaved.
C24_PacingOnly ==
    /\ [][paused' # paused =>
              /\ paused' = ~paused
              /\ UNCHANGED <<Content, delay_ms, elapsed>>]_vars
    /\ [][delay_ms' # delay_ms => UNCHANGED <<Content, paused, elapsed>>]_vars
    /\ [](current_state = DisplayedAfter(algorithm_fn, input, Len(snaps)))
    /\ [][((current_state' # current_state \/ snaps' # snaps)
              /\ algorithm_fn' = algorithm_fn /\ input' = input) =>
              \/ /\ snaps' = <<>>
                 /\ current_state' = DisplayedAfter(algorithm_fn, input, 0)
              \/ /\ ~paused
                 /\ snaps' = Append(snaps, current_state')
                 /\ current_state'
                       = DisplayedAfter(algorithm_fn, input, Len(snaps) + 1)]_vars

\* C24 witness: a quick sort run that is paused after two or more of its
\* snapshots, at the smallest delay, before its end, with the latest
\* snapshot displayed.
C24_Witness ==
    /\ algorithm_fn = "quick_sort"
    /\ paused
    /\ delay_ms = MIN_DELAY_MS
    /\ Len(snaps) >= 2
    /\ ~Done
    /\ ~sort_complete
    /\ current_state = Last
    /\ current_state.array # input


=============================================================================
